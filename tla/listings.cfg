SPECIFICATION Spec
CONSTANTS
  Routes = {"post_article", "del_article", "get_articles", "get_article", "get_tags"}
  UserNames = {"ann"}
  Emails = {"e1", "e2"}
  Hashes = {"h1"}
  Bios = {}
  Titles = {"A", "Feed", "Long"}
  Slugs = {"a", "feed"}
  Texts = {"x"}
  TagNames = {"go"}
  RawTags = {"Go"}
  Passwords = {}
  Slots = {r1, r2}
  MaxSerial = 2
  SequentialClients = FALSE
  DefaultLimit = 1
  Numbers <- MCNumbers
  Filters <- MCFilters
  FixedSlugs = {"feed"}
  CiFold <- MCCiFold
  SeedUsers <- MCOneUser
  Slugify <- MCSlugify
  ToLower <- MCToLower
  Digest <- MCDigest
  Oversized = "oversized"
  NULL = NULL
SYMMETRY MCSymmetry
INVARIANTS TypeOK RefusedWroteNothing ShownTagsOrGone
