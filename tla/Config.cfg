CONSTANTS
  Tools = {"Bash", "Write", ""}
  NoTool = ""
  Calls = {"rm", "ls", "edit", "bare"}
  EmptyField = {"ls"}
  ToolOf <- MCToolOf
  Env = "empty"
  GlobalFiles <- MCGlobalFiles
  ProjectFiles <- MCProjectFiles
  RecipeFiles <- MCRecipeFiles
  Names = {"r", "s"}
  NoCall = "none"
SPECIFICATION Spec
INVARIANTS LoadedIsInForce ReportsAreTrue
PROPERTIES FirstMatchWins 
