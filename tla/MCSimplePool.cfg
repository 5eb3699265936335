CONSTANT Capacity = 3
SPECIFICATION Spec
INVARIANTS NoDuplicatePointer NothingHidden
PROPERTY ImplementsAllocator
