CONSTANTS
  Pods = {"p", "q"}
  Containers = {"c1", "c2", "c3"}
  CgroupIDs = {1, 2, 3, 4}
  Policies = {1, 2}
  Labels = {"x", "y"}
  Home <- TheHome
  Owner <- TheOwner
  PodSelector <- ThePodSelector
  ContainerSelector <- TheContainerSelector
  CgroupMap = TRUE
  PolMapSize = 4
  CgroupMapSize = 2
SPECIFICATION Spec
INVARIANT Reverse
