SPECIFICATION Spec
CONSTANT Words = 4
PROPERTY FramingLinesUp
