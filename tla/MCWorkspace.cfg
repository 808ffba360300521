CONSTANTS
    agent = agent
    editor = editor
    lib = lib
    readme = readme
    src = src
    root = root
    old = old
    new = new
    Actors = {agent, editor}
    Runners = {agent}
    Paths = {lib, readme}
    Dirs = {src, root}
    Root = root
    Contents = {old, new}
    DirOf <- MCDirOf
    Absent = Absent
    Nothing = Nothing

SPECIFICATION Spec
INVARIANTS
    OverwritesOnlyWhenOvertaken
    
