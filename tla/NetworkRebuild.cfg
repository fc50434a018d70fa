SPECIFICATION Spec
CONSTANTS
    NodeOf <- Nodes
    Cases <- OneMore
PROPERTIES
    ConnectsToParent
CHECK_DEADLOCK FALSE
