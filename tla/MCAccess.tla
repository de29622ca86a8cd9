------------------------------ MODULE MCAccess ------------------------------
(***************************************************************************)
(* An instance of Access for TLC.                                          *)
(***************************************************************************)
EXTENDS Access

CONSTANTS ann, bob, team, new, p, s, i, j, k

(* Requests are handled alike, whoever handles them.                       *)
AnyWorker == Permutations(Workers)

MCOrganization == [x \in Names \cup {Root} |-> 1]

MCGlobalIntents       == <<"network.listActive", "global.grantPermission", "global.createUser">>
MCUserIntents         == <<"user.authenticate", "user.intent.revokePermission">>
MCProjectIntents      == <<"project.intent.grantPermission", "project.intent.revokePermission">>
MCSubprojectIntents   == <<"subproject.intent.grantPermission",
                           "subproject.intent.revokePermission", "subproject.createWorkflowitem">>
MCWorkflowitemIntents == <<"workflowitem.intent.grantPermission",
                           "workflowitem.intent.revokePermission",
                           "workflowitem.list", "workflowitem.assign">>

(* Groups that contain themselves, and one another.                        *)
MCMemberSets == {{}, {team, bob}, {new, team}}

(* Two workflowitems, a restricted one and another, are yet to be created. *)
MCAssignee == [r \in Resources |-> IF r \in {j, k} THEN NoOne ELSE ann]

MCGroups == [g \in {team} |-> {bob, team}]

(* Ann may do everything on what she has created; so may the team on the   *)
(* project, and everybody on his own user record.                          *)
MCGranted ==
    UNION {{r} \X IntentsOf(r) \X {ann} : r \in Resources \ {j, k}}
      \cup UNION {{r} \X IntentsOf(r) \X {team} : r \in Projects}
      \cup UNION {{x} \X Range(UserIntents) \X {x} : x \in FirstUsers}
      \cup ({Global} \X Range(GlobalIntents) \X {ann})

(* The list of intents.ts, to which createPermissionEvents is applied.     *)
WorkflowitemIntentsOfTheCode ==
    <<"workflowitem.intent.listPermissions", "workflowitem.intent.grantPermission",
      "workflowitem.intent.revokePermission", "workflowitem.list",
      "workflowitem.viewHistory", "workflowitem.assign", "workflowitem.update",
      "workflowitem.close">>

ASSUME RevokedOfTheCode ==
    LET all == WorkflowitemIntentsOfTheCode
    IN  /\ Range(RevokedOf(all)) = Range(all) \ {ViewIntent}
        /\ Len(RevokedOf(all)) = Len(all) - 1
=============================================================================
