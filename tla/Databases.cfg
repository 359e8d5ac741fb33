SPECIFICATION Spec
CONSTANTS
  Aliases = {"default", "replica"}
  Paths = {"app.db", "test_app.db"}
  Configurations <- TestConfigurations
INVARIANTS TestsStartEmpty ApplicationUntouched ConnectionsFollowNames NoHandleLeaks MvccIsVerified
