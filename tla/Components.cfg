CONSTANTS
    p1 = p1  p2 = p2  p3 = p3  None = none  Unknown = unknown  AutoSku = auto
    alpha = alpha  beta = beta  kappa = kappa  lambda = lambda  xi = xi
    flour = flour  sugar = sugar  cake = cake  bread = bread  sweet = sweet
    mill = mill  farm = farm  india = india  usa = usa
    ann = ann  bob = bob  shop = shop  cafe = cafe  eta = eta  phi = phi
    Requests = {p1, p2, p3}
    NoRequest = none
    Rows = {alpha, beta, xi}
    NoRow = none
    Lots = {kappa}
    NoLot = none
    Unused = unknown
    Quantities = {2}
    Costs = {1}
    Unpriced = none
    Expiry <- Expiries
    Slots = {p1, p2}
    RecipeIds = {alpha, beta}
    Priced = {cake, flour}
    Vended = cake
    Days = {eta}
    Profile = lambda
    Markets = {india, usa}
    CurrencyOf <- Currencies
    MoneyCalls = 3
    Locations = {alpha, beta}
    SetupCalls = 5
    Units = {1}
    Prices = {1}
    Stamps = {alpha, beta}
    Labour = {1}
    Variants = {cake, bread}
    DayCalls = 3
    Items = {flour, sugar}
    Lines = {alpha, beta}
    ItemOf <- LineItem
    Suppliers = {mill, farm}
    OfferPrices = {1, 2}
    StartOffers <- Offers
    MaxRequests = 2
    AskingCalls = 4
    ItemNames = {alpha}
    BatchNumbers = {kappa}
    ItemFiles <- ItemSheets
    LinkedVariants = {cake}
    MaxRemovals = 1
    ProductNames = {alpha, beta}
    Categories = {sweet}
    Skus = {kappa, lambda, xi}
    BaseSku <- Base
    RowSku <- ByRow
    ProductFiles <- ProductSheets
    MaxProducts = 2
    MaxByHand = 1
    Identities <- Known
    Branches = {lambda}
    MaxUsers = 3
    PeopleCalls = 4
    MaxVersion = 5
    Keys = {kappa}
    NoKeyRow = auto
    Shelf <- Wasted
    BulkSize = 2
    BatchIds = {alpha, beta}
    Needs <- Formula
    RowItem <- Shelves
    Bins <- Filled
SPECIFICATION AnySpec
SYMMETRY Same
INVARIANTS
    AnyTypeOK
    BalanceIsLedger
    RecipesConsistent
    MoneyInItsCurrency
    RowClosedOnce
    JobTellsTruth
    PeopleConsistent
    CopiedAtRest
    StockIsStandingWaste
PROPERTIES
    ImplementsBook
    SetupConsistent
    ClosedWhatWasSold
    RequestsConsistent
    ItemsConsistent
    ProductsConsistent
    ServedAlone
    LivesByStatus
CHECK_DEADLOCK FALSE
