---------------------------- MODULE RuleService -----------------------------
(***************************************************************************)
(* What the NIFs promise to callers that let nothing but reads overlap: an *)
(* enforcer is one set of rules.  A request is decided in one step, on the *)
(* rules of that moment; a call changes the rules part by part, each part  *)
(* in one step, and writes each to the database before the next one.       *)
(* Pointer, objects and cached decisions are not to be seen.               *)
(***************************************************************************)
CONSTANTS Threads,      \* the callers
          Requests,     \* what they ask
          Rules,        \* the rules there may be
          Decide(_, _)  \* the decision on a request under a set of rules

VARIABLES serving,  \* an enforcer has been created and not been destroyed
          rules,    \* its rules
          rows,     \* the rules in the database
          asking,   \* the callers that await a decision
          req,      \* what each caller asks, or has asked last
          unsaved,  \* the change that each caller has still to write
          answer    \* what each caller was answered

vars == <<serving, rules, rows, asking, req, unsaved, answer>>

Changes   == [how : {"add", "remove"}, part : SUBSET Rules]
Unchanged == [how |-> "none", part |-> {}]

After(c, S) == IF c.how = "add" THEN S \cup c.part ELSE S \ c.part

Init == /\ serving = FALSE
        /\ rules = {}
        /\ rows \in SUBSET Rules
        /\ asking = {}
        /\ req \in [Threads -> Requests]
        /\ unsaved = [t \in Threads |-> Unchanged]
        /\ answer = [t \in Threads |-> "none"]

Answer(t, a) == answer' = [answer EXCEPT ![t] = a]

Ask(t) == /\ t \notin asking
          /\ asking' = asking \cup {t}
          /\ \E q \in Requests : req' = [req EXCEPT ![t] = q]
          /\ Answer(t, "none")
          /\ UNCHANGED <<serving, rules, rows, unsaved>>

Decided(t) == /\ t \in asking
              /\ asking' = asking \ {t}
              /\ Answer(t, IF serving THEN Decide(req[t], rules) ELSE "error")
              /\ UNCHANGED <<serving, rules, rows, req, unsaved>>

(* Any other call begins, or is refused.                                   *)
Begin(t) == /\ t \notin asking
            /\ Answer(t, "none")
            /\ UNCHANGED <<serving, rules, rows, asking, req, unsaved>>

Refuse(t) == /\ t \notin asking
             /\ unsaved[t] = Unchanged
             /\ Answer(t, "error")
             /\ UNCHANGED <<serving, rules, rows, asking, req, unsaved>>

(* A part of a call that has an effect; then it is written, or the call    *)
(* fails and the rules stay as they have become.                           *)
Alter(t) == /\ serving /\ unsaved[t] = Unchanged
            /\ \E c \in Changes :
                  /\ rules' = After(c, rules)
                  /\ rules' # rules
                  /\ unsaved' = [unsaved EXCEPT ![t] = c]
            /\ UNCHANGED <<serving, rows, asking, req, answer>>

Save(t) == /\ unsaved[t] # Unchanged
           /\ rows' = After(unsaved[t], rows)
           /\ unsaved' = [unsaved EXCEPT ![t] = Unchanged]
           /\ UNCHANGED <<serving, rules, asking, req, answer>>

Lose(t) == /\ unsaved[t] # Unchanged
           /\ unsaved' = [unsaved EXCEPT ![t] = Unchanged]
           /\ Answer(t, "error")
           /\ UNCHANGED <<serving, rules, rows, asking, req>>

(* A new enforcer has the rules of the database; destroyed, it has none.   *)
Open == /\ serving' = TRUE
        /\ rules' = rows
        /\ UNCHANGED <<rows, asking, req, unsaved, answer>>

Close == /\ serving' = FALSE
         /\ rules' = {}
         /\ UNCHANGED <<rows, asking, req, unsaved, answer>>

Next == \/ Open \/ Close
        \/ \E t \in Threads : \/ Ask(t) \/ Decided(t) \/ Begin(t) \/ Refuse(t)
                              \/ Alter(t) \/ Save(t) \/ Lose(t)

Spec == Init /\ [][Next]_vars
=============================================================================
