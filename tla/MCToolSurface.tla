---------------------------- MODULE MCToolSurface ----------------------------
EXTENDS ToolSurface

CONSTANTS e1, e2, c1, c2

Definition(p, e, s) == [promoted |-> p, enabled |-> e, schema |-> s]

Of(one, two) == [n \in {1, 2} |-> IF n = 1 THEN one ELSE two]

\* Nothing, a plain tool, a promoted one with either schema, one switched off,
\* and one more promoted tool than the cap admits.
MCSnapshots ==
  {Of(NoTool, NoTool), Of(Definition(FALSE, TRUE, "a"), NoTool),
   Of(Definition(TRUE, TRUE, "a"), NoTool), Of(Definition(TRUE, TRUE, "b"), NoTool),
   Of(Definition(TRUE, FALSE, "a"), NoTool),
   Of(Definition(TRUE, TRUE, "a"), Definition(TRUE, TRUE, "a"))}

MCExcludeSets == {{}, {"custom"}}
==============================================================================
