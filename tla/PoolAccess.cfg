SPECIFICATION Spec
CONSTANTS
    max_pool_size = 3
PROPERTIES AllocatorSpec
