\* Structs of three and of four u32.
CONSTANT PodSizes = {12, 16}
SPECIFICATION Spec
INVARIANTS RoundTrip
