\* The relay alone.
SPECIFICATION Spec
CONSTANTS
    Kind <- RelayOnly
    Item = {i1}
PROPERTIES
    SignalEndsPolling
