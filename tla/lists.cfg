SPECIFICATION Spec
CONSTANTS
  Routes = {"post_article", "post_comment", "follow", "unfollow", "get_comments", "get_feed"}
  UserNames = {"ann", "bob"}
  Emails = {"e1", "e2"}
  Hashes = {"h1"}
  Bios = {}
  Titles = {"A", "B"}
  Slugs = {"a", "b"}
  Texts = {"x"}
  TagNames = {"go"}
  RawTags = {}
  Passwords = {}
  Slots = {r1, r2}
  MaxSerial = 2
  SequentialClients = TRUE
  DefaultLimit = 1
  Numbers = {}
  Filters = {}
  FixedSlugs = {}
  CiFold <- MCCiFold
  SeedUsers <- MCTwoUsers
  Slugify <- MCSlugify
  ToLower <- MCToLower
  Digest <- MCDigest
  Oversized = "oversized"
  NULL = NULL
CONSTRAINT MCShortLists
SYMMETRY MCSymmetry
INVARIANTS FeedShowsFollowed
PROPERTIES FollowingShownTrue OnlyOwnersChange
