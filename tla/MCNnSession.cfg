SPECIFICATION Spec
CONSTANT Consoles = {c1, c2}
INVARIANTS InputExclusive ReportDescribes StillAsking
PROPERTIES NoStalePublish ClosedRunFillsNothing SettlingEnds
