---------------------------- MODULE MCRegistration ----------------------------
(***************************************************************************)
(* Small instances of Registration for TLC.                                *)
(***************************************************************************)
EXTENDS Registration, TLC

Person(phone, id) == [phone |-> phone, bank |-> id, name |-> id, blanks |-> {}]

\* Two people whose phones end alike, the second with the account of the first typed with
\* a blank; one who shares the phone of the first; and one who shares the account of the
\* first and the name of the second and types the phone of the first with a blank.
Overlapping == {[phone |-> <<0, 0, 0, 1>>, bank |-> 1, name |-> 1, blanks |-> {}],
                [phone |-> <<1, 0, 0, 1>>, bank |-> 1, name |-> 2, blanks |-> {"bank"}],
                [phone |-> <<0, 0, 0, 1>>, bank |-> 3, name |-> 3, blanks |-> {}],
                [phone |-> <<0, 0, 0, 1>>, bank |-> 1, name |-> 2, blanks |-> {"phone"}]}

\* Nobody, or two members who have taken two of the three slices that the first
\* two people could use.
Crowded == {{}, {[app |-> Person(<<2, 0, 0, 1>>, 8), cut |-> 3],
                 [app |-> Person(<<3, 0, 0, 1>>, 9), cut |-> 2]}}

Interchangeable == Permutations(Requests)
===============================================================================
