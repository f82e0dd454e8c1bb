SPECIFICATION Spec
CONSTANTS
  Item = {i1, i2, i3, i4, i5, i6, i7}
  NoItem = NoItem
PROPERTY ImplementsElasticBuffer
