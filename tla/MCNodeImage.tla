---------------------------- MODULE MCNodeImage ------------------------------
(* Instances of NodeImage for TLC, with the records of both programs.      *)
EXTENDS NodeImage, CollectRecords, AnalysisRecords

MCCollects == Opened(CollectTable)
MCAdjusts == Opened(AdjustTable)
MCCollectOf(target, kind) ==
    CASE target = "tree" -> CollectTree[kind]
      [] target = "gimple" -> CollectGimple[kind]
      [] OTHER -> kind
MCAdjustOf(target, kind) ==
    CASE target = "tree" -> AdjustTree[kind]
      [] target = "gimple" -> AdjustGimple[kind]
      [] OTHER -> kind

(* Every record some field may lead to: the walk that has just met it.     *)
FieldTargets == {"tree", "gimple"} \cup
                UNION {{MCCollects[r][j][2] : j \in DOMAIN MCCollects[r]} :
                          r \in DOMAIN MCCollects}
AllRoots == UNION {{<<t, k>> : k \in CollectPointees(t)} :
                      t \in FieldTargets \ {"location"}}
(* One root for each walk that visits something, whatever its code.        *)
EveryWalk ==
    {r \in AllRoots :
        /\ MCCollects[MCCollectOf(r[1], r[2])] # <<>>
        /\ r = CHOOSE s \in AllRoots :
                  MCCollectOf(s[1], s[2]) = MCCollectOf(r[1], r[2])}

(* Two roots that hold locations are met with shared fields, globals, a    *)
(* table that fills up and crashes; from the others any two fields lead to *)
(* new records, and so do the fields of these.                             *)
MCBounds ==
    [r \in {root[2] : root \in EveryWalk} |->
        IF r \in {"BLOCK", "binding_TYPE"}
        THEN [objs |-> 6, records |-> 2, shared |-> 1, globals |-> 2, crashes |-> 1]
        ELSE [objs |-> 20, records |-> 3, shared |-> 0, globals |-> 0, crashes |-> 0]]
=============================================================================
