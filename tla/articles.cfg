SPECIFICATION Spec
CONSTANTS
  Routes = {"post_article", "put_article", "del_article"}
  UserNames = {"ann", "bob"}
  Emails = {"e1", "e2"}
  Hashes = {"h1"}
  Bios = {}
  Titles = {"A", "B"}
  Slugs = {"a", "b"}
  Texts = {"x"}
  TagNames = {"go"}
  RawTags = {"Go"}
  Passwords = {}
  Slots = {r1, r2}
  MaxSerial = 2
  SequentialClients = TRUE
  DefaultLimit = 1
  Numbers = {}
  Filters = {}
  FixedSlugs = {}
  CiFold <- MCCiFold
  SeedUsers <- MCTwoUsers
  Slugify <- MCSlugify
  ToLower <- MCToLower
  Digest <- MCDigest
  Oversized = "oversized"
  NULL = NULL
SYMMETRY MCSymmetry
INVARIANTS Integrity SlugFollowsTitle AuthorSeesOwnWrite OwnDeleteGone
PROPERTIES OnlyOwnersChange IdsNeverReused
