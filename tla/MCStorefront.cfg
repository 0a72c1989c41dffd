SPECIFICATION Spec
CONSTANTS
  \* Two tabs of one customer, two items, two delivery forms, two attempts.
  CustomerTab = {a, b}
  Item = {c, d}
  Form = {h, w}
  NoDelivery = "none"
  MaxAttempts = 2
  MaxEdits = 3
  \* Two accounts and two carts; two requests for a session.
  Account = {"ann", "ben"}
  Out = "out"
  MaxCart = 2
  MaxPolls = 2
  MaxAsks = 2
  MaxSwitches = 2
  SharedEdits = 1
  MaxVisits = 2
  \* Two contents of the delivery form and two faults.
  Details = {"home", "work"}
  NothingSent = "nothing"
  MaxFaults = 2
  \* Two fields, two keystrokes, two links, two moves.
  FormField = {"state", "zip"}
  MaxTyped = 2
  MaxPushes = 2
  MaxMoves = 2
  \* Three variants, lines of at most two units, a bag of at most two lines.
  Variant = {r, s, t}
  MaxQuantity = 2
  MaxLines = 2
  MaxStock = 3
  NoTarget = NoTarget
  \* Two visits and one checkout over two keys.
  VisitTab = {a, b}
  PaymentTab = {"checkout"}
  Key = {c, d}
  MaxWrites = 3
  \* Two products, one more to come, in two categories; a page holds one.
  BrowseProduct = {1, 2, 3}
  Initial = {1, 2}
  Kind <- MCKind
  Words = {1, 2}
  Prices = {1, 2}
  FirstPrices <- MCFirstPrices
  HomeLimit = 1
  PageSize = 1
  Landings <- MCLandings
  MaxClicks = 2
  BrowseEdits = 1
  \* Two sizes and two colours; the product may lose a size and reorder its
  \* colours, or be deleted, and stock moves in two variants.
  Sizes = {"S", "M"}
  Colors = {"red", "blue"}
  ChoiceOffers <- MCChoiceOffers
  FirstOffer <- Both
  FirstStock <- MCStock
  MaxUnits = 2
  Moving <- MCMoving
  StockMoves = 1
  MaxItemQuantity = 2
  NoChoice = "none"
  \* Catalogs of up to six products, by twos and two pages at a time.
  MaxProduct = 6
  SitemapPage = 2
  SitemapConcurrency = 2
  MaxProducts = 5
  SitemapEdits = 2
  \* Six orders of two shoppers, by twos.
  MaxOrder = 6
  HistoryLimit = 2
  Shopper = {"ann", "ben"}
  Owner <- MCOwner
  \* Three products of two versions that offer different variants; two workers
  \* and three edits.
  Products = {"tee", "polo", "coat"}
  Versions = {"red only", "red and blue"}
  FirstVersion = "red and blue"
  Offers <- MCOffers
  Gone = "gone"
  Failure = "failure"
  NoReply = "unanswered"
  CheckCarts <- MCCarts
  TooLong = {"too long"}
  Concurrency = 2
  CatalogueEdits = 3
SYMMETRY Symmetry
INVARIANTS StorefrontTypes OneAccountsOwn ChoiceIsHonoured NothingIsMissed
PROPERTIES PaidOnceAsShown NothingIsForgotten
CHECK_DEADLOCK FALSE
