CONSTANTS
    a = a  b = b  get = get  mget = mget
    Client = {c1, c2}
    Key = {a, b}
    Command = {get, mget}
    KeysOf <- Keys
    Scenario <- AllScenarios
    None = None

SYMMETRY Interchangeable
SPECIFICATION Spec
INVARIANTS
    Coherent
    JoinsLiveRead

CHECK_DEADLOCK FALSE
