SPECIFICATION Spec
CONSTANTS
  Routes = {"post_comment", "post_article", "del_article", "get_article", "post_favorite", "del_favorite", "login", "get_profile", "get_user", "get_tags"}
  UserNames = {"ann", "bob"}
  Emails = {"e1", "e2"}
  Hashes = {"h1"}
  Bios = {}
  Titles = {"A"}
  Slugs = {"a"}
  Texts = {"x"}
  TagNames = {"go"}
  RawTags = {}
  Passwords = {"p1"}
  Slots = {r1, r2}
  MaxSerial = 2
  SequentialClients = TRUE
  DefaultLimit = 1
  Numbers = {}
  Filters = {}
  FixedSlugs = {}
  CiFold <- MCCiFold
  SeedUsers <- MCTwoUsers
  Slugify <- MCSlugify
  ToLower <- MCToLower
  Digest <- MCDigest
  Oversized = "oversized"
  NULL = NULL
CONSTRAINT MCOneComment
SYMMETRY MCSymmetry
INVARIANTS FavoriteReplyTrue FavoritedIsCounted RefusedWroteNothing
PROPERTIES OnlyOwnersChange
