SPECIFICATION Spec
CONSTANTS
  Routes = FALSE
  InfraNamespaces = {"b"}
  Resources <- MCResources
  PreferredVersion <- MCPreferredVersion
  CustomGroups <- MCCustomGroups
  Lower <- MCLower
  BaseName <- MCBaseName
  SafeLabel <- MCSafeLabel
  Objects <- MCObjects
INVARIANTS
  StaysInNamespace
  OnlyKnownLosses
  ShortcutsAgree
PROPERTIES
  LeadsBack
CHECK_DEADLOCK FALSE
