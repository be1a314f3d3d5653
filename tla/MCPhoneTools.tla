---------------------------- MODULE MCPhoneTools ----------------------------
(* An instance of PhoneTools: the owner of the phone and a friend, one      *)
(* message, two reminders, and calls about each of them and about entries   *)
(* that the calls before have added.                                        *)
EXTENDS PhoneTools, TLC

MCPhones == {"p", "q"}
MCContents == {"x", "y"}

MCNamespaces == {"CONTACT", "MESSAGING", "REMINDER", "SETTING"}

MCRow == Contact \union Reminder \union Message \union Setting

MCInitialRows == [ns \in MCNamespaces |->
                    IF ns = "SETTING" THEN {[cellular |-> TRUE]} ELSE {}]

MCBaseRows == [ns \in MCNamespaces |->
  CASE ns = "CONTACT" -> {[id |-> 0, phone |-> "p", is_self |-> TRUE],
                          [id |-> 1, phone |-> "q", is_self |-> FALSE]}
    [] ns = "REMINDER" -> {[id |-> i, content |-> "x"] : i \in {0, 1}}
    [] ns = "MESSAGING" -> {[id |-> 0, sender |-> 0, from |-> "p", to |-> "q", recipients |-> {1}]}
    [] ns = "SETTING" -> {}]

Call(tools, ids, given) == [tool : tools, id : ids, given : given]
SelfOrNot == {[is_self |-> b] : b \in BOOLEAN}

\* Entries 0 and 1 are of the base scenario, 2 is what a first call adds; an
\* addition and a message have no identifier to give.
MCCalls ==
  Call({"add_contact"}, {0}, {[phone |-> "q", is_self |-> b] : b \in BOOLEAN})
    \union Call({"modify_contact"}, {0, 1, 2}, SelfOrNot \union {[phone |-> "q"]})
    \union Call({"remove_contact", "remove_reminder"}, {0, 1, 2}, {<<>>})
    \union Call({"add_reminder"}, {0}, {[content |-> "x"]})
    \union Call({"modify_reminder"}, {0, 1, 2}, {[content |-> "y"]})
    \union Call({"send_message_with_phone_number"}, {0}, {[phone |-> "q"]})
    \union Call({"set_cellular_service_status"}, {0}, {[cellular |-> b] : b \in BOOLEAN})
=============================================================================
