SPECIFICATION Spec
CONSTANTS
  \* Two products and a category, three writes and two refreshes under way.
  ShownProduct = {a, b}
  ShownCategory = {c}
  PageWrites = 3
  MaxRefreshes = 2
  \* Colors of each kind, two edits or updates by others.
  Plain = {"black", "white"}
  AddressLike = {"/sky"}
  WithEquals = {"x=y"}
  Address = {"/p", "/q"}
  Odd = "/sky="
  Broken = "my pic"
  NotText = "number"
  Null = "null"
  Stem = "x"
  FormRows <- MCRows
  MaxPrice = 1
  FormEdits = 2
  \* Two variants, and one change behind the panel's back.
  Size = {1, 2}
  MaxCount = 2
  DefaultCount = 2
  StockChanges = 1
  \* Two purchases of one customer, windows of one checkout and one order.
  Purchases = {a, b}
  Users = {"ann"}
  UserOf <- MCUserOf
  ActivityWindow = 1
  OrderWindow = 1
  FeedEvents = 1
  ListLimit = 1
  Pages = {"users", "overview"}
  NoPurchase = NoPurchase
  \* Two tabs, three choices or clearings and two changes of the preference.
  Tabs = {a, b}
  Nobody = "nobody"
  MaxWrites = 3
  MaxTurns = 2
  \* Two requests of administrators race on one product, two relays on its
  \* outbox.
  Product = {c}
  Variant = {"S"}
  Admin = {a, b}
  Replica = {r, s}
  MaxEvents = 2
  MaxEdits = 2
  MaxFaults = 1
  \* Two workers handle the hints of one product, whose price changes and which
  \* is deleted.
  Worker = {a, b}
  Amount = {10, 20}
  Category = {tops, shirts}
  MaxChanges = 2
  MaxRepeats = 1
  MaxRenames = 1
  StripeFaults = 2
  \* Three products in two categories, two runs and those after a failure.
  Seeds <- MCSeeds
  OtherNames = {"other"}
  OtherSlugs = {"new"}
  MaxRuns = 2
  SeedFaults = 2
  SeedEdits = 1
SYMMETRY Symmetry
INVARIANTS CatalogueTypes ReportsAreTrue
PROPERTIES SavesWhatWasMeant WritesAreAnnounced StripeFollows
CHECK_DEADLOCK FALSE
