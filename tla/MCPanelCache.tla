---------------------------- MODULE MCPanelCache ----------------------------
(* PanelCache with a folder and a layer in it before the widget is opened *)
EXTENDS PanelCache

CONSTANTS a, b, folder, river

MCLayer0  == <<a>>
MCFolder0 == <<1>>
MCShelves0 == <<[name |-> river, isCollapsed |-> FALSE]>>

=============================================================================
