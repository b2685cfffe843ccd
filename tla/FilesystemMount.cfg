SPECIFICATION Spec
CONSTANT MaxFormats = 1
INVARIANT MountedVolumeIsTheDevices
