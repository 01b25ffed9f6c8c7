------------------------------ MODULE MCLexer ------------------------------
(* Small alphabets and files for the model checking of Lexer.              *)
EXTENDS Lexer, SequencesExt

MCReserved == {<<Blank>>, <<NewLine>>, <<Quote>>, <<Dot>>, <<Slash>>, <<":">>, <<"=">>,
               <<Dot, Dot>>, <<":", "=">>, <<"!", "=">>, <<"i", "s">>}

\* Every text of a few characters, and longer ones of the characters numbers,
\* ranges and comments are made of.
MCTexts == BoundedSeq({"i", "s", "0", Dot, Slash, ":", "=", Blank, NewLine, Quote, "!"}, 4)
               \cup BoundedSeq({"0", Dot, Slash, NewLine}, 6)

\* Texts of words, slashes and lines that follow another file in the same
\* process, a string, and an unknown character.
MCLaterTexts == BoundedSeq({"i", Slash, NewLine}, 3) \cup {<<Quote, "i", Quote>>, <<"i", "!">>}

\* A reserved string and a blank.
MCWords == {Append(s, Blank) : s \in MCReserved}
=============================================================================
