SPECIFICATION Spec
CONSTANTS
  Routes = {"post_user", "put_user"}
  UserNames = {"ann", "bob", "Bob"}
  Emails = {"e1", "e2"}
  Hashes = {"h1", "h2"}
  Bios = {}
  Titles = {}
  Slugs = {}
  Texts = {}
  TagNames = {}
  RawTags = {}
  Passwords = {"p2"}
  Slots = {r1, r2}
  MaxSerial = 2
  SequentialClients = FALSE
  DefaultLimit = 1
  Numbers = {}
  Filters = {}
  FixedSlugs = {}
  CiFold <- MCCiFold
  SeedUsers <- MCOneUser
  Slugify <- MCSlugify
  ToLower <- MCToLower
  Digest <- MCDigest
  Oversized = "oversized"
  NULL = NULL
SYMMETRY MCSymmetry
INVARIANTS DbTypeOK Integrity RefusedWroteNothing
PROPERTIES NoLostUpdate
