------------------------------ MODULE MCToolUse ------------------------------
(* ToolUse with one administrator and one ordinary user; two questions that   *)
(* are alike, so that a search for one finds what was saved for the other.    *)
EXTENDS ToolUse, TLC

CONSTANTS admin, user, call1

MCGroupsOf == [u \in Users |-> IF u = admin THEN {"admin"} ELSE {"user"}]
\* One tool is registered while the program runs, for everyone or for admins.
MCAccess == [t \in Tools |-> IF t = SaveText THEN {{}, {"admin"}} ELSE {}]
Wired(names) == [t \in names |-> IF t = SaveTool THEN {"admin"} ELSE {}]
MCWirings == {Wired({}), Wired({SearchTool, SaveTool}), Wired({"run_sql", SearchTool}),
              Wired({"run_sql", "visualize_data"}), Wired(Tools \ {SaveText})}
MCTools == {"run_sql", "visualize_data", SearchTool, SaveTool, SaveText}
MCSimilarity == [asked \in Questions |->
    [known \in Questions |-> IF asked = known THEN 10 ELSE 8]]
==============================================================================
