CONSTANTS
    w1 = w1
    w2 = w2
    None = None
    Workers = {w1, w2}
SPECIFICATION Spec
INVARIANT WorkerDisconnectOnce
PROPERTY StoppedWorkerDisconnects
