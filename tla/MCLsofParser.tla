---------------------------- MODULE MCLsofParser ----------------------------
(***************************************************************************)
(* Outputs of lsof for LsofParser: a process with up to two files, in      *)
(* every combination of names and lines T, then one that may lack what the *)
(* first one had, or a line that is an error.                              *)
(***************************************************************************)
EXTENDS LsofParser, SequencesExt

Line(field, value) == [field |-> field, value |-> value]
Skipped == Line("skipped", Absent)

Name(ok, local) == Line("n", [ok |-> ok, local |-> local, remote |-> "peer"])
Infos == {<< >>, <<Line("T", "ST=CLOSED")>>, <<Line("T", "ST=ESTABLISHED")>>,
          <<Line("T", "ST=ESTABLISHED"), Line("T", "QR=0")>>}
File(name, info) == <<Skipped, name>> \o info
Files(names, infos) == {File(name, info) : name \in names, info \in infos}

Process(pid, about, files) ==
    <<Line("p", [ok |-> TRUE, number |-> pid])>> \o about \o FlattenSeq(files)

Commands == {<<Line("c", c)>> : c \in {"sshd", "sshd-session", "sshd-keygen"}}
Users == {<<Line("u", "501")>>, <<Line("L", "ann")>>,
          <<Line("u", "501"), Line("L", "ann")>>}
FirstFiles == Files({Name(TRUE, 22), Name(TRUE, 2222), Name(FALSE, 0)}, Infos)
First == {Process(11, command \o user, files) :
            command \in Commands, user \in Users, files \in BoundedSeq(FirstFiles, 2)}

SecondFiles == Files({Name(TRUE, 22), Name(FALSE, 0)},
                     {<< >>, <<Line("T", "ST=ESTABLISHED")>>})
Second == {Process(12, about, <<file>>) :
            about \in {<< >>, <<Line("c", "sshd")>>}, file \in SecondFiles}
Errors == {<<Line("p", [ok |-> FALSE, number |-> 12])>>, <<Line("overlong", Absent)>>}

MCOutputs == {<< >>} \cup {p \o q : p \in First, q \in {<< >>} \cup Second \cup Errors}
MCPortFilters == {{22}, {}}
=============================================================================
