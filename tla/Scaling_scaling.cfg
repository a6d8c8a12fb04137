SPECIFICATION Spec
CONSTANTS
    Manager = {"a", "b"}
    MaxConcurrency <- MCMaxConcurrency
    Caps <- MCCaps
    Kind <- MCKind
    Rules <- MCRules
    Omitted = Omitted
    MaxA = 2
    CapA = 1
    Policies = {"no", "vanilla", "capability", "waterfall"}
    Upper = 10
    CapUpper = 5
    Cooldown = 1
    Prompt = {"vanilla", "waterfall"}
    Loads = {0, 6}
    Slots <- MCSlots
    Shifts = 2
    Events <- MCEvents
    Budget = 1
INVARIANTS
    WithinCapacity
    WaterfallExact
PROPERTIES
    NoFlap
    Settles
