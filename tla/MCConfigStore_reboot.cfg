SPECIFICATION Spec
CONSTANT MaxRequests = 1
PROPERTY RebootApplies
