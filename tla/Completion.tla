----------------------------- MODULE Completion -----------------------------
(* Completing what is typed: the autocompleter that writes files               *)
(* (mongodb-ts-autocomplete) and the language service that reads them          *)
(* (ts-autocomplete).                                                          *)
EXTENDS Autocomplete, TsService

CompletionSpec == AutoSpec /\ ServiceSpec

\* Completions are made from what is known, by the autocompleter that writes the files
\* (mongodb-ts-autocomplete) and by the language service that reads them
\* (ts-autocomplete).
CompletionsAreCurrent == AnswersAreCurrent /\ []ServedIsCurrent
=============================================================================
