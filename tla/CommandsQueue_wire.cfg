CONSTANTS
    asking = asking  multi = multi  exec = exec  get = get  set = set
    hello = hello  cached = cached
    askChain = askChain  pipeChain = pipeChain
    NoChain = NoChain
    NoLead = NoLead
    Chain = {askChain, pipeChain}
    Cmd = {asking, multi, exec, get, set, hello, cached}
    Req <- WireReq
    KindOf <- WireKindOf
    LeadOf <- WireLeadOf
    BodyOf <- WireBodyOf
    ChainOf <- WireChainOf
    OptionsOf <- WireOptionsOf
    Asap = {hello}
    WithPrelude = {cached}
    Unencodable = {set}
    MaxLength = 5
    MaxConn = 2

SPECIFICATION Spec
INVARIANTS
    ReplyMatching
    NoCommandLost
    AtMostOnce
    ChainWhole
    MultiNotStranded
PROPERTIES
    ImplementsDelivery

\* callers may stop submitting
CHECK_DEADLOCK FALSE
