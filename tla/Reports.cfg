SPECIFICATION MCSpec
CONSTANTS
    MaxAmount = 3000
    Prices = {333, 2990}
    Tips <- MCTips
    Price <- MCPrice
    HoursPerDay = 3
    Offset = 1
    DaysPerMonth = 2
    Weekly = 1
    Monthly = 2
    MINIMUM_PAYOUT = 300
    MaxHours = 6
    MaxPayments = 2
    maxLength = 3
    MaxText <- MCMaxText
    Articles = {a1, a2, a3}
    Limits = {1, 5}
    MaxLimit = 2
    MaxChanges = 3
INVARIANTS PayoutWithinOneKopeck PayoutPositive RevenueAddsUp ViewsAgree DashboardsAgree
    AmountSurvives SlugsNormal TypedIsRead TeasersStayShort WalkMissesNothing
PROPERTIES DearerPaysNoLess PastNeverGrows
CHECK_DEADLOCK FALSE
