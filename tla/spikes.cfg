SPECIFICATION Spec
CONSTANTS
    Script <- SpikeScript
    Objects <- SpikeObjects
    Under <- SpikeUnder
    OwnedBy <- SpikeOwnedBy
    Plan <- SpikePlan
INVARIANT OutputIsWhatItClaims
PROPERTY TornDownInOrder
CHECK_DEADLOCK FALSE
