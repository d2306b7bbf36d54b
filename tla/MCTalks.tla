------------------------------ MODULE MCTalks -------------------------------
(* Small chats and small streamed answers, for MCServices and MCProgress. *)
EXTENDS Roundtable, LlmStream
CONSTANTS m1, m2

\* two members that may write to each other, as in a mesh group
MeshPolicy == [default |-> FALSE,
               edges |-> <<[from |-> m1, to |-> m1, channels |-> {"Blackboard"}],
                           [from |-> Everyone, to |-> Everyone, channels |-> {"Message"}]>>]
\* who may command what, how many posts and turns there are, bubbles in a reply
Kit(c, p, t, b) == [cmds |-> c, posts |-> p, turns |-> t, chunks |-> b]
OneChat == Kit({"post"}, 2, 2, 2)
MeshKits == {OneChat, Kit({"post"}, 1, 4, 0), Kit({"post"}, 1, 3, 2), Kit({"broadcast"}, 1, 3, 1),
             Kit({"broadcast", "rerun", "fork"}, 2, 3, 1),
             Kit({"post", "rerun", "fork"}, 2, 2, 1),
             Kit({"post", "status"}, 2, 2, 1), Kit({"post", "remove"}, 2, 2, 1)}
\* enough for two turns that wait on each other, and for a third behind them
WaitingKits == {Kit({"post"}, 1, 3, 0), Kit({"post", "remove"}, 2, 2, 0)}

\* an answer with a thought, and one that calls two tools in pieces
TextLine(w) == [NoLine EXCEPT !.content = w]
ThoughtLine(w) == [NoLine EXCEPT !.thought = w]
PieceLine(i, n, w) == [NoLine EXCEPT !.calls = <<[index |-> i, name |-> n, args |-> w]>>]
LastLine == [NoLine EXCEPT !.finish = TRUE]
\* the provider, its answer, and what the network and the user do to it
SK(d, l, n, r, c, b, chatty, cancels) ==
  [dialect |-> d, lines |-> l, netErrors |-> n, refusals |-> r, closes |-> c, breaks |-> b,
   chatty |-> chatty, cancels |-> cancels]
ThoughtAndText == <<ThoughtLine("r"), TextLine("a"), LastLine>>
OneAnswer == SK("DeepSeek", ThoughtAndText, 1, 1, 0, 1, TRUE, TRUE)
SmallAnswers ==
  {OneAnswer,
   SK("DeepSeek", ThoughtAndText, 2, 1, 0, 2, TRUE, TRUE),
   SK("OpenAI", <<ThoughtLine("r"), TextLine("p"), PieceLine(1, "read_file", ""),
                  PieceLine(2, "list_dir", "y"), PieceLine(1, "", "x"), PieceLine(1, "", "z"),
                  LastLine>>, 0, 0, 1, 1, FALSE, TRUE)}
CutAnswers == {OneAnswer}
=============================================================================
