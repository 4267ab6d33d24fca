\* Every outcome of up to three requests, cancelled at any moment.
SPECIFICATION Spec
CONSTANT MaxRetries = 3
INVARIANT AllAttemptsUsed
PROPERTIES ImplementsChannel NoRequestAfterCancel Returns
CHECK_DEADLOCK FALSE
