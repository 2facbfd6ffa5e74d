------------------------------- MODULE MCBoot -------------------------------
(* Boot with four plans: a composite whose second spec comes first in the plan
   and whose processes fork, a cycle beside a spec that can start, a dependency
   nobody declares, and two specs that wait for the same line. *)
EXTENDS Boot

MCNames == {"a", "b", "ghost"}
MCLines == {"accepting", "listening"}

Plain == [after |-> {}, gate |-> "alive", line |-> "accepting", hooks |-> FALSE,
          tree |-> FALSE, member |-> "none"]

Named(a, b) == [n \in MCNames |-> CASE n = "a" -> a [] n = "b" -> b [] OTHER -> Plain]

MCPlans == {
    [order |-> <<"b", "a">>, converges |-> TRUE, spec |-> Named(
        [Plain EXCEPT !.gate = "probe", !.hooks = TRUE, !.tree = TRUE, !.member = "loud"],
        [Plain EXCEPT !.gate = "log_line", !.line = "listening", !.after = {"a"},
                      !.member = "quiet", !.tree = TRUE])],
    [order |-> <<"b", "a", "ghost">>, converges |-> FALSE, spec |-> Named(
        [Plain EXCEPT !.gate = "log_line", !.after = {"b", "ghost"}],
        [Plain EXCEPT !.after = {"a"}])],
    [order |-> <<"a", "b">>, converges |-> TRUE, spec |-> Named(
        [Plain EXCEPT !.gate = "probe"],
        [Plain EXCEPT !.after = {"a", "ghost"}])],
    [order |-> <<"a", "b">>, converges |-> FALSE, spec |-> Named(
        [Plain EXCEPT !.gate = "log_line", !.hooks = TRUE],
        [Plain EXCEPT !.gate = "log_line", !.after = {"a"}])]}
=============================================================================
