------------------------- MODULE MCPropertyServices -------------------------
(* Instances of PropertyServices for TLC. *)
EXTENDS PropertyServices

Ref(prop, index) == [prop |-> prop, index |-> index]
Of(type, id, refs) == [type |-> type, id |-> id, refs |-> refs]

\* Names and values are only compared.
NamesAndValues == Permutations(Names) \cup Permutations(Values)

MCIndices == {-1, 0, 1, 9}

MCHeader == [init |-> 3, object |-> 6, property |-> 2, index |-> 2,
             error |-> 6, end |-> 1]

\* A list of every kind, indices on arrays and on others, objects that may not
\* exist and properties that do not.
MCRequests == {
  <<Of("device", 9, <<Ref("ALL", -1)>>)>>,
  <<Of("analog-input", 1, <<Ref("ALL", -1)>>),
    Of("bitstring-value", 2, <<Ref("OPTIONAL", -1), Ref("PRESENT_VALUE", -1)>>)>>,
  <<Of("bitstring-value", 1, <<Ref("ALL", 1), Ref("REQUIRED", -1),
                               Ref("BIT_TEXT", -1)>>),
    Of("device", 1, <<Ref("OBJECT_LIST", 0), Ref("OBJECT_LIST", 2),
                      Ref("OBJECT_NAME", 1)>>)>>,
  <<Of("device", 9, <<Ref("OBJECT_LIST", -1), Ref("UNITS", -1)>>),
    Of("device", 2, <<Ref("OBJECT_NAME", -1)>>)>> }

\* What each list names is what the switch of the type reads, once.
ASSUME TablesAgree ==
  \A type \in {"device", "analog-input", "analog-value", "multi-state-input",
               "multi-state-value", "bitstring-value", "characterstring-value",
               "date-value", "time-value", "notification-class"} :
    LET listed == Required(type) \o Optional(type)
    IN ToSet(listed) = Handled(type) /\ IsInjective(listed)

=============================================================================
