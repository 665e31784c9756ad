------------------------- MODULE MCRepositoryPilot -------------------------
(***************************************************************************)
(* Two pilots, and trees that between them reach every limit of the scan:  *)
(* names 1 and 2 are texts, 3 is not, 8 is excluded, 9 is a secret.        *)
(***************************************************************************)
EXTENDS RepositoryPilot, TLC

MCSymmetry == Permutations(Pilots) \cup Permutations(Models)

MCDigest(x) == <<"sha256", x>>

Dir == [kind |-> "dir", bytes |-> <<>>]
Closed == [kind |-> "closed", bytes |-> <<>>]
Link == [kind |-> "link", bytes |-> <<>>]
File(bytes) == [kind |-> "file", bytes |-> bytes]

Root == <<>> :> Dir

\* Two files that may be seen, one of them two levels down; all may be read.
\* Edited to ManyFiles below, one is shorter, the other gone with its directory.
Plain == Root @@ <<1>> :> File(<<"a", "b", "c">>) @@ <<2>> :> Dir @@ <<9>> :> File(<<"s">>)
              @@ <<2, 2>> :> File(<<"a", "b">>) @@ <<2, 3>> :> Link

\* A closed directory before a file.
Unreadable == Root @@ <<1>> :> Closed @@ <<2>> :> File(<<"a">>) @@ <<8>> :> Dir
                   @@ <<8, 1>> :> File(<<"a">>)

\* One file more than is taken.
ManyFiles == Root @@ <<1>> :> File(<<"a", "b">>) @@ <<2>> :> File(<<"a", "b">>)
                  @@ <<3>> :> File(<<"a">>)

\* One entry more than a directory may have; than all may have together.
WideRoot == Root @@ <<1>> :> File(<<"a">>) @@ <<4>> :> Link @@ <<5>> :> Link @@ <<6>> :> Link
WideInside == Root @@ <<1>> :> Dir @@ <<2>> :> File(<<"b">>) @@ <<3>> :> Dir
                   @@ <<1, 1>> :> File(<<"a">>) @@ <<3, 1>> :> Link @@ <<3, 2>> :> Link

\* One directory more than is visited.
Deep == Root @@ <<1>> :> Dir @@ <<1, 1>> :> Dir @@ <<1, 1, 1>> :> Dir
             @@ <<1, 1, 1, 1>> :> File(<<"a">>) @@ <<1, 2>> :> File(<<"b">>)

MCTrees == {Plain, Unreadable, ManyFiles, WideRoot, WideInside, Deep}

Arguments(summary) == [summary |-> summary, findings |-> <<500>>, risks |-> <<>>]
Output(kind, target, arguments) == [kind |-> kind, target |-> target, arguments |-> arguments]
Action(summary) == Output("ACTION", "report:repository/pilot", Arguments(summary))

Outputs == {Action(1), Action(800), Action(801), Output("NO_ACTION", None, None)}
Unsayable == Output("unusable", None, None)
MCUnusable == {Unsayable}

Reply(outcome, status, output, input, produced) ==
    [outcome |-> outcome, status |-> status, bytes |-> TRUE, size |-> 1, output |-> output,
     input_tokens |-> input, output_tokens |-> produced]
Fine(output) == Reply("replied", 200, output, 1, 1)

MCReplies ==
    {Fine(output) : output \in Outputs \cup {Unsayable, None}}
    \cup {Reply(outcome, 500, None, None, None) :
             outcome \in {"http_error", "timeout", "os_error", "exception", "replied"}}
    \cup {[Fine(Action(1)) EXCEPT !.size = 3], [Fine(Action(1)) EXCEPT !.bytes = FALSE],
          [Fine(Action(1)) EXCEPT !.input_tokens = -1], [Fine(Action(1)) EXCEPT !.output_tokens = 2],
          [Fine(Action(1)) EXCEPT !.input_tokens = 2], [Fine(Action(1)) EXCEPT !.input_tokens = 9]}

=============================================================================
