\* Three places, which is no power of two, and three items.
SPECIFICATION Spec
CONSTANTS
    Item = {a, b, z}
    Zero = z
    DEPTH = 3
INVARIANT
    TypeOK
PROPERTY
    QueueSpec
