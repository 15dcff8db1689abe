SPECIFICATION Spec
INVARIANT Detects101101
