SPECIFICATION Spec
CONSTANT Shown <- MCShown
INVARIANT SingleFlagShown
