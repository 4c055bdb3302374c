CONSTANTS
    Namespaces <- MCNamespaces
    NoNs = NoNs
SPECIFICATION Spec
INVARIANT TypeOK
INVARIANT EachNamespaceOnce
PROPERTY ImplementsWorkerPool
