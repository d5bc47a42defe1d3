SPECIFICATION Spec
CONSTANTS width = 2 height = 3 TabStop = 2
 Printed = {"char", "newline", "return", "tabulator"}
 Echoed = {"char", "newline", "backspace", "tabulator"}
INVARIANTS CursorOnScreen NothingBehindCursor StaysInVideo
