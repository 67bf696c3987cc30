------------------------------- MODULE MCParts -------------------------------
(****************************************************************************)
(* Instances for TLC of the parts that run by themselves: the provider      *)
(* turn, its validator, its request and its credential, the migrations, the *)
(* maintenance of the store, the worktrees, the configuration and the       *)
(* codecs.  They share no variable, so a behaviour is one of any of them,   *)
(* and component says which.                                                *)
(****************************************************************************)
EXTENDS ProviderTurn, StreamValidator, ProviderRequest, Credentials,
        Migrations, Maintenance, Worktrees, Config, Codec, TLC

CONSTANTS i1, i2, b1, b2, a1, a2, oldBuild, newBuild, oddBuild,
          backup, rebuild, write, n1, n2, c1, c2

VARIABLE component

providerVars == <<turnVars, feedVars, requestVars, credentialVars>>
storeVars == <<migrationVars, maintenanceVars>>
localVars == <<worktreeVars, configVars, codecVars>>
vars == <<component, providerVars, storeVars, localVars>>

------------------------------------------------------------------------------
(* The provider.                                                            *)

\* A turn that fails before its stream, one that fails within it, a whole one,
\* one without events, and one out of order.
Tape(events, error) == [events |-> events, error |-> error]
Begun == <<StepEvent("step-start", 0), Text("start", "t")>>
Tapes == {Tape(<<>>, AttemptError("retryable", FALSE)),
          Tape(Begun, AttemptError("retryable", TRUE)),
          Tape(Begun \o <<Text("end", "t")>> \o FinishEvents, Success),
          Tape(<<>>, Success),
          Tape(<<Text("delta", "t")>>, AttemptError("ok", TRUE))}

\* Two blocks of text, one of reasoning, and a tool with a wrong name.
Events ==
    {BlockEvent(op, "text", id, "") : op \in {"start", "delta", "end"}, id \in {"x", "y"}}
    \cup {BlockEvent(op, "reasoning", "x", "") : op \in {"start", "delta", "end"}}
    \cup {BlockEvent(op, "tool-input", "x", tool) : op \in {"start", "delta", "end"},
                                                    tool \in {"", "n", "m"}}
    \cup {ToolEvent(type, "x", tool) : type \in {"call", "result", "error"},
                                       tool \in {"n", "m"}}
    \cup {StepEvent(type, index) : type \in {"step-start", "step-finish"}, index \in -1 .. 1}
    \cup {BlockEvent("start", "text", "", ""), Finish, ProviderError, BadEvent}

\* Every content of up to three parts in every role, without tools; every offer
\* of up to two tools with every choice and format, around one call.
Auto == [type |-> "auto"]
MCRequests ==
    [role : {"system", "user", "assistant", "tool"},
     content : UNION {[1 .. n -> Kinds] : n \in 0 .. 3} \cup {<<"bad">>},
     tools : {<<>>}, choice : {Auto}, format : {[type |-> "text"]}]
    \cup
    [role : {"assistant"}, content : {<<"call">>},
     tools : UNION {[1 .. n -> {"t", "u"}] : n \in 0 .. 2},
     choice : {Auto, [type |-> "none"], [type |-> "named", name |-> "t"]},
     format : {[type |-> "text"], [type |-> "json"], [type |-> "tool", name |-> "u"]}]

MCRoutes ==
    [api : {"openai", "anthropic", "compatible"},
     capabilities : {{"text", "tool-calls", "image-input", "reasoning", "json-output"},
                     {"text", "tool-calls"}}]

------------------------------------------------------------------------------
(* The store.                                                               *)

\* Two builds of the program one migration apart, and one that differs.
Migration(id, sum) == [id |-> id, sum |-> sum]
Catalogs ==
    (oldBuild :> <<Migration(1, "x"), Migration(2, "x")>>)
    @@ (newBuild :> <<Migration(1, "x"), Migration(2, "x"), Migration(3, "x")>>)
    @@ (oddBuild :> <<Migration(1, "x"), Migration(2, "y")>>)

MCKind == (backup :> "backup") @@ (rebuild :> "rebuild") @@ (write :> "write")

------------------------------------------------------------------------------
(* The configuration.                                                       *)

Scalar(x) == [kind |-> "scalar", items |-> <<x>>]
Array(x) == [kind |-> "array", items |-> x]

\* Documents whose leaves meet: a scalar, an empty object and objects on the
\* same path, instructions with a duplicate, and a key that is dropped.
Documents ==
    {NoDocument,
     <<"a">> :> Scalar(1),
     <<"a">> :> EmptyObject,
     <<"a", "c">> :> EmptyObject,
     (<<"a", "b">> :> Scalar(2)) @@ (<<"a", "c", "b">> :> Scalar(2)),
     (<<"a", "c">> :> Scalar(3)) @@ (<<"theme", "a">> :> Scalar(2)),
     Instructions :> Array(<<1, 2, 1>>),
     (Instructions :> Array(<<3, 1>>)) @@ (<<"a">> :> Scalar(1))}

MCContents ==
    [stage : {"ok"}, doc : Documents]
    \cup [stage : {"missing", "read", "substitute", "parse", "validate"}, doc : {NoDocument}]

Source(id, kind, optional) == [id |-> id, kind |-> kind, optional |-> optional]

\* One caller has sources that are out of order, two of the same kind; the
\* other has a duplicate, one source, or one of an unknown kind.
MCLists ==
    (c1 :> {<<Source("p", "project", FALSE), Source("g", "global", TRUE),
              Source("d", "project", FALSE)>>})
    @@ (c2 :> {<<Source("i", "inline", FALSE), Source("i", "remote", FALSE)>>,
               <<Source("i", "inline", TRUE)>>, <<Source("x", "odd", TRUE)>>})

------------------------------------------------------------------------------
Init ==
    /\ component \in {"turn", "validator", "request", "credential",
                      "migrations", "maintenance", "worktrees", "config", "codec"}
    /\ TurnInit /\ FeedInit /\ CredentialInit
    /\ IF component = "request" THEN RequestInit
       ELSE request = [content |-> <<>>] /\ route = [api |-> "none"] /\ body = Unprojected
    /\ component # "turn" => adapter = "fake"
    /\ MigrationInit /\ MaintenanceInit
    /\ WorktreeInit /\ ConfigInit /\ CodecInit
    /\ component # "worktrees" => name = n1

Provide ==
    /\ UNCHANGED <<storeVars, localVars>>
    /\ \/ component = "turn" /\ TurnNext /\ UNCHANGED <<feedVars, requestVars, credentialVars>>
       \/ component = "validator" /\ FeedNext
             /\ UNCHANGED <<turnVars, requestVars, credentialVars>>
       \/ component = "request" /\ RequestNext
             /\ UNCHANGED <<turnVars, feedVars, credentialVars>>
       \/ component = "credential" /\ CredentialNext
             /\ UNCHANGED <<turnVars, feedVars, requestVars>>

Maintain ==
    /\ UNCHANGED <<providerVars, localVars>>
    /\ \/ component = "migrations" /\ MigrationNext /\ UNCHANGED maintenanceVars
       \/ component = "maintenance" /\ MaintenanceNext /\ UNCHANGED migrationVars

Operate ==
    /\ UNCHANGED <<providerVars, storeVars>>
    /\ \/ component = "worktrees" /\ WorktreeNext /\ UNCHANGED <<configVars, codecVars>>
       \/ component = "config" /\ ConfigNext /\ UNCHANGED <<worktreeVars, codecVars>>
       \/ component = "codec" /\ CodecNext /\ UNCHANGED <<worktreeVars, configVars>>

Next == UNCHANGED component /\ (Provide \/ Maintain \/ Operate)

Spec == Init /\ [][Next]_vars
==============================================================================
