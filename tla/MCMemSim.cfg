SPECIFICATION Spec
CONSTANTS
    MEMORY_PAGE_NUM = 16
    MEMORY_PAGE_SIZE = 16
    Vaddr <- SomeAddresses
    Byte <- TwoBytes
INVARIANT TypeOK
PROPERTY ImplementsFlatMemory
