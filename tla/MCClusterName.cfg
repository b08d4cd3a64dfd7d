\* One job returns while another stores.
CONSTANTS
  Job = {j1, j2}
  Name = {n1}
  None = None
SPECIFICATION Spec
INVARIANT ReturnsAName
