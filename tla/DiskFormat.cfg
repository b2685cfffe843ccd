SPECIFICATION Spec
CONSTANT Sizes <- AllSizes
INVARIANTS
  LayoutFits
  NoGeometryIsMissed
  MountAgrees
