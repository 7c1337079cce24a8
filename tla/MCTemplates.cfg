SPECIFICATION Spec
CONSTANTS
  Sources <- MCSources
  Formats <- MCFormats
  PropMaps <- MCPropMaps
  Values <- MCValues
  InText <- TextOf
  InAttribute <- AttributeText
  Number <- MCNumber
  Alphabet <- MCAlphabet
INVARIANTS TemplateTypeOK AcceptsBalanced RendersInPlace LaterAttributesWin FieldsFilledOnce
CHECK_DEADLOCK FALSE
