CONSTANTS
  Players = {"p1", "p2", "p3"}
  MaxCurrency = 3
  Player = {"p1", "p2"}
  NoScene = NoScene
  TestScene = TestScene
  ModScene = ModScene
  Shown = Shown
  Word = 4
  MaxEvents = 5
  Ticks = 2
  ChatTime = 16
  Banned = {"p1", "p2"}
  Hours = {0, 2, 9}
  BanTime = 4
  Largest = 10
  Shifts <- MCShifts
  Receivers = {"p1"}
  Kits = {"k1", "k2"}
  Cooldowns = {0, 1, 2}
  Fractions = 2
  KitTime = 6
  MaxRequests = 5
SPECIFICATION SpecPart
INVARIANTS MoneyKept MetricsFollow ChatRate BansLast KitsCool TeleportsAnswered
PROPERTIES TransferExact
CHECK_DEADLOCK FALSE
