SPECIFICATION Spec
CONSTANTS
    mia = mia
    ada = ada
    systemPrompt = systemPrompt
    mentionAliases = mentionAliases
    Person = mia
    Agent = ada
    Field <- MCFields
    NoRow = NoRow
    NoForm = NoForm
    Same = Same
    MaxWrites = 4
INVARIANTS StaysOff EditsKept ListShowsRow WokenInside
CHECK_DEADLOCK FALSE
