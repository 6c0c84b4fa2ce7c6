-------------------------- MODULE MCTemplateUpload --------------------------
EXTENDS TemplateUpload

\* The conversion changes the second file of one input.
MCAltered == {<<"changed", 2>>}
=============================================================================
