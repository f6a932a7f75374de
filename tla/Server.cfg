SPECIFICATION Spec
CONSTANTS
  MaxUnpacked = 2
  PatternText <- MCPatternText
  Memory <- MCMemory
  Concurrency = {0, 1, 4}
  Vector = 2
  PerCore = 1
  TextSize = {0, 2}
  MaxObjects = 2
  Uint32 <- MCUint32
  BitBytes <- MCBitBytes
  MaxWrites = 3
  FileName = {f1, f2}
  Data = {d1, d2}
  StartupPaths <- MCStartupPaths
  Path = {"iw6x", "main", "mods"}
  FileContent = {"x", "y"}
  BindKeys = 2
  BoundCommand = {"+attack", "+frag", "say", "vote"}
  Whitelist <- MCWhitelist
  MaxRegistered = 3
  Rotation <- MCRotation
  Current <- MCCurrent
  MaxPending = 2
  Player = {"p1", "p2"}
  Slots = 2
  Message <- MCMessage
  CommandLine <- MCCommandLine
  MaxLines = 2
  MaxCommands = 2
  BotSlot = {"1", "2"}
  BotName = {"a"}
  OwnName = "own"
  MaxBots = 2
  MaxDepartures = 1
  CommonName = {"pastTitleData"}
  CoopName = {"alienPlayerStats", "pastTitleData"}
  StatPath <- MCStatPath
  ReservedName = {"prestigeLevel", "other"}
  StatValue = {7}
  SquadMember = {"0", "1"}
  Loadout = {"0"}
  UnlockItem = {"", "knife"}
  Purchase = {"p1"}
  Challenge <- MCChallenge
  UdpSocket = {"s", "t"}
  StunServer = {"eu"}
  GameThread = {"main", "net"}
  NoServer = "internet"
  MaxAsked = 2
INVARIANTS HooksPlaced ReadsBack FilesServed RotationInOrder PlayersServed DatagramsInOrder
CHECK_DEADLOCK FALSE
